---- MODULE Spec2Model ----
(***************************************************************************)
(* Model of proxybroker/providers.py: one Provider instance (a source),    *)
(* its bounded-concurrency fetch/retry engine (get, _get), its crawl       *)
(* planning (_pipe of the provider classes), page extraction               *)
(* (_find_on_page, find_proxies) and the result set (proxies setter).      *)
(*                                                                         *)
(* A page text is a sequence of lexical items; every regular expression of *)
(* the source selects the items of the kind it matches.  The coroutines of *)
(* one provider are the tasks; a step of the model is the code a coroutine *)
(* runs between two suspension points (await of the semaphore, await of    *)
(* the HTTP response, await of gather).                                    *)
(***************************************************************************)
EXTENDS Integers, Sequences, FiniteSets, TLC

\* ---------------------------------------------------------------- bounds
\* largest max_conn / max_tries a provider is constructed with
MaxConn == 2
MaxTries == 2
\* number of URLs of a static page list (Foxtools_ru._pipe builds 5)
NumPages == 2
\* digits of the run that follows an address in the texts of Texts
MaxRunLen == 5
\* digits written as one octet in the texts of Texts
MaxOctetLen == 3
\* \d{2,5}
MinPortDigits == 2
MaxPortDigits == 5

\* ------------------------------------------------------------ page texts
IpPort(h, p) == [k |-> "ipport", v |-> <<h, p>>]
B64(fields) == [k |-> "b64", v |-> fields]
B64Bad == [k |-> "b64bad", v |-> <<>>]
Junk == [k |-> "junk", v |-> <<>>]
Link(u) == [k |-> "link", v |-> <<u>>]
Sid(s) == [k |-> "sid", v |-> <<s>>]
\* an address that another address follows before any port (Nntime_com)
IpOnly(h) == [k |-> "iponly", v |-> <<h>>]
\* scheme A: `ch=digit;` and an address whose port is written (delim+x+y..)
CharDef(ch, digit) == [k |-> "chardef", v |-> <<ch, digit>>]
JsA(h, delim, letters) == [k |-> "jsA", v |-> <<h, delim>> \o letters]
\* scheme B: `;name=num` (num a literal, or left^right) and an address
\* whose port is written +(a^b)+(c^d)..; pairs = <<a, b, c, d, ..>>
TokDef(name, left, right) == [k |-> "tokdef", v |-> <<name, left, right>>]
JsB(h, pairs) == [k |-> "jsB", v |-> <<h>> \o pairs]

\* '' : the empty text
EmptyText == <<>>
\* an index page: two article links (one of them twice), a link to the
\* index page itself and a session token
IndexText == <<Junk, Link("p1"), Link("home"), Link("p2"), Link("p1"), Sid("tok")>>
\* listing pages; the Proxy('..') tokens are what Proxy_list_org matches
PageOne == <<IpPort("h1", "80"), B64(<<"h1", "80">>)>>
PageTwo == <<IpPort("h2", "81"), IpPort("h1", "80"), B64(<<"h2", "81">>), B64(<<"h1", "">>)>>
\* a Proxy('..') token that is not valid base64
PageUndecodable == <<IpPort("h2", "81"), B64(<<"h1", "80">>), B64Bad>>
\* a Proxy('..') token that decodes to a text without ':'
PageMalformed == <<IpPort("h1", "80"), B64(<<"h2", "81">>), B64(<<"h3">>)>>

Bodies == {EmptyText, IndexText, PageOne, PageTwo, PageUndecodable, PageMalformed}

\* pages of the scheme A sources: a=8, b=0 / a=8, b=1 and ports a+b; an
\* address without port; a port that uses a letter the page does not define
CharsOne == <<CharDef("a", "8"), CharDef("b", "0"), JsA("h1", ":", <<"a", "b">>), JsA("h1", "", <<"a", "b">>)>>
CharsTwo == <<CharDef("a", "8"), CharDef("b", "1"), JsA("h2", ":", <<"a", "b">>), JsA("h2", "", <<"a", "b">>), IpOnly("h3")>>
CharsUndefined == <<CharDef("a", "8"), JsA("h1", ":", <<"a", "b">>), JsA("h1", "", <<"a", "b">>)>>
BodiesA == {EmptyText, CharsOne, CharsTwo, CharsUndefined}

\* pages of the scheme B source: aaaa=5, bbbb=3, cccc=6^bbbb and the port
\* +(aaaa^bbbb)+(cccc^aaaa); a page that defines nothing and uses aaaa and
\* bbbb; a page whose composite definition names two tokens
TokensOne == <<TokDef("aaaa", "5", ""), TokDef("bbbb", "3", ""), TokDef("cccc", "6", "bbbb"),
               JsB("h1", <<"aaaa", "bbbb", "cccc", "aaaa">>)>>
TokensNone == <<JsB("h2", <<"aaaa", "bbbb">>)>>
TokensOfTokens == <<TokDef("aaaa", "5", ""), TokDef("bbbb", "3", ""), TokDef("cccc", "aaaa", "bbbb"),
                    JsB("h3", <<"cccc", "bbbb">>)>>
BodiesB == {EmptyText, IndexText, TokensOne, TokensNone, TokensOfTokens}

\* what one request can end with: status 0 stands for an exception raised
\* before a body was read (connection error, timeout, closed session)
NoResponse == [status |-> 0, body |-> EmptyText]
\* the bodies sent with a status other than 200: none, or an error page
\* that happens to list an address
ErrorBodies == {EmptyText, PageOne}
Responses == {NoResponse} \cup [status : {200}, body : Bodies] \cup [status : {404}, body : ErrorBodies]
\* the same for the sources that serve obfuscated ports
ResponsesA == {NoResponse} \cup [status : {200}, body : BodiesA] \cup [status : {404}, body : {EmptyText}]
ResponsesB == {NoResponse} \cup [status : {200}, body : BodiesB] \cup [status : {404}, body : {EmptyText, TokensNone}]
SchemeA(c) == c \in {"Xseo_in", "Nntime_com"}
SchemeB(c) == c = "Spys_ru"
\* the pages with Proxy('..') tokens that fail to decode differ from the
\* others only for Proxy_list_org
BodiesPlain == {EmptyText, IndexText, PageOne, PageTwo}
ResponsesPlain == {NoResponse} \cup [status : {200}, body : BodiesPlain] \cup [status : {404}, body : ErrorBodies]
ResponsesOf(c) ==
    IF SchemeA(c) THEN ResponsesA
    ELSE IF SchemeB(c) THEN ResponsesB
    ELSE IF c = "Proxy_list_org" THEN Responses
    ELSE ResponsesPlain

\* the provider classes, one per shape of _pipe and find_proxies:
\* Provider (one page), Foxtools_ru (a fixed page list), Checkerproxy_net
\* (links of an index page), My_proxy_com (links plus the index page),
\* Proxy_list_org (the same, with base64 tokens), Blogspot_com (several
\* index pages fetched together), Spys_ru (session token, then POSTs,
\* scheme B), Xseo_in (one page, scheme A), Nntime_com (a fixed page list,
\* scheme A, the proximity pattern), FileProvider (a local file, no request)
Classes == {"Provider", "Foxtools_ru", "Checkerproxy_net", "My_proxy_com", "Proxy_list_org", "Blogspot_com", "Spys_ru", "Xseo_in", "Nntime_com", "FileProvider"}
HasIndex(c) == c \in {"Checkerproxy_net", "My_proxy_com", "Proxy_list_org", "Blogspot_com", "Spys_ru"}
\* the classes whose _pipe appends the index url to the discovered links
AppendsIndexUrl(c) == c \in {"My_proxy_com", "Proxy_list_org"}

HomeUrl == "home"
Domains == <<"d1", "d2">>
PageUrls == <<"p1", "p2", "p3", "p4">>
Levels == <<"3", "4">>

MaxTasks == IF NumPages > 3 THEN NumPages ELSE 3
TaskIds == 1..MaxTasks

\* cls, proto, max_conn, max_tries: the provider as constructed
\* sem_provider: value of self._sem_provider;  sessionClosed: self._session
\* proxies: self._proxies;  tasks: the coroutines of the running call, each
\*   with its request, its place (waiting for a slot, in flight, done,
\*   failed = ended with an exception), the attempts of its get() so far
\* gp: where get_proxies is (idle, index, pages, returned, raised)
\* indexText: the index text _pipe went on with in this call
\* grew: whether the setter added a record in this call
\* lastGet: see NoGet
\* charEqNum: what self.charEqNum evaluates to;  other: see OtherInstance
\* expected: the result set at the start of the call plus the candidates
\*   (host and non-empty port) of the texts the call has processed
\* fileRead: what open(self.url).read() of FileProvider gave last
\* scan: the text last handed to Nntime_com._pattern and the match it gave
VARIABLES cls, proto, max_conn, max_tries, sem_provider, sessionClosed, proxies, tasks, gp, indexText, grew, lastGet, charEqNum, other, expected, fileRead, scan

vars == <<cls, proto, max_conn, max_tries, sem_provider, sessionClosed, proxies, tasks, gp, indexText, grew, lastGet, charEqNum, other, expected, fileRead, scan>>
config == <<cls, proto, max_conn, max_tries>>

\* ------------------------------------------------------- pure functions
\* set(urls) of _find_on_pages: every distinct URL once (here at the place
\* of its first occurrence)
Dedup(seq) ==
    LET first == {i \in 1..Len(seq) : \A j \in 1..(i - 1) : seq[j] # seq[i]}
    IN [k \in 1..Cardinality(first) |->
          seq[CHOOSE i \in first : Cardinality({j \in first : j < i}) = k - 1]]

RECURSIVE Join(_)
\* ''.join(pages)
Join(pages) == IF pages = <<>> THEN <<>> ELSE Head(pages) \o Join(Tail(pages))

IsKind(kinds, item) == item.k \in kinds
Values(items) == [i \in 1..Len(items) |-> items[i].v]

\* int(..) and str(..) on the numerals the pages use
Numerals == <<"0", "1", "2", "3", "4", "5", "6", "7", "8", "9", "10", "11", "12", "13", "14", "15">>
IsNumeral(str) == \E i \in 1..Len(Numerals) : Numerals[i] = str
IntOf(str) == (CHOOSE i \in 1..Len(Numerals) : Numerals[i] = str) - 1
StrOf(n) == Numerals[n + 1]

RECURSIVE Xor(_, _)
\* a ^ b on non-negative integers
Xor(a, b) ==
    IF a = 0 THEN b
    ELSE IF b = 0 THEN a
    ELSE (((a % 2) + (b % 2)) % 2) + 2 * Xor(a \div 2, b \div 2)

RECURSIVE Concat(_)
\* ''.join(strings)
Concat(strs) == IF strs = <<>> THEN "" ELSE Head(strs) \o Concat(Tail(strs))

\* charEqNum = {}
EmptyTable == [ch \in {} |-> ""]

\* {char: i for char, i in re.findall(expCharNum, page)}: the definitions of
\* the page, a later one of the same letter replacing an earlier one
TableA(page) ==
    LET d == SelectSeq(page, LAMBDA it : IsKind({"chardef"}, it))
    IN [ch \in {d[i].v[1] : i \in 1..Len(d)} |->
          d[CHOOSE i \in 1..Len(d) : d[i].v[1] = ch /\ \A j \in (i + 1)..Len(d) : d[j].v[1] # ch].v[2]]

\* scheme A: the delimiter each source's expPortOnJS asks for
DelimOf(c) == IF c = "Nntime_com" THEN ":" ELSE ""

\* the digits of the letters put together from the last letter to the first
char_js_port_to_num_A_reversed(tab, letters) ==
    IF \E i \in 1..Len(letters) : letters[i] \notin DOMAIN tab
    THEN [exc |-> TRUE, val |-> ""]
    ELSE [exc |-> FALSE, val |-> Concat([i \in 1..Len(letters) |-> tab[letters[Len(letters) - i + 1]]])]

\* Xseo_in / Nntime_com char_js_port_to_num: the digits of the letters, in
\* order; KeyError on a letter the table does not hold
char_js_port_to_num_A(tab, letters) ==
    IF \E i \in 1..Len(letters) : letters[i] \notin DOMAIN tab
    THEN [exc |-> TRUE, val |-> ""]
    ELSE [exc |-> FALSE, val |-> Concat([i \in 1..Len(letters) |-> tab[letters[i]]])]

\* the digits of the pairs put together from the last pair to the first
char_js_port_to_num_reversed(tab, pairs) ==
    IF \E i \in 1..Len(pairs) : pairs[i] \notin DOMAIN tab
    THEN [exc |-> TRUE, val |-> ""]
    ELSE [exc |-> FALSE,
          val |-> Concat([i \in 1..(Len(pairs) \div 2) |->
                            StrOf(Xor(tab[pairs[Len(pairs) - 2 * i + 1]], tab[pairs[Len(pairs) - 2 * i + 2]]))])]

\* Spys_ru.char_js_port_to_num: per pair the decimal string of
\* table[var1] ^ table[var2], in order; KeyError on an unknown token
char_js_port_to_num_B(tab, pairs) ==
    IF \E i \in 1..Len(pairs) : pairs[i] \notin DOMAIN tab
    THEN [exc |-> TRUE, val |-> ""]
    ELSE [exc |-> FALSE,
          val |-> Concat([i \in 1..(Len(pairs) \div 2) |->
                            StrOf(Xor(tab[pairs[2 * i - 1]], tab[pairs[2 * i]]))])]

\* a loop body that stores the literal of a composite definition and
\* leaves out the XOR with the token
DefineTokenNoXor(tab, def) ==
    IF ~IsNumeral(def[2]) THEN [exc |-> TRUE, tab |-> tab]
    ELSE IF def[3] # "" /\ def[3] \notin DOMAIN tab THEN [exc |-> TRUE, tab |-> tab]
    ELSE [exc |-> FALSE, tab |-> (def[1] :> IntOf(def[2])) @@ tab]

\* Spys_ru.find_proxies, one `char, num` of res: ValueError when int() is
\* given a token name, KeyError when tochar is not in the table
DefineToken(tab, def) ==
    LET name == def[1]
        left == def[2]
        right == def[3]
    IN IF ~IsNumeral(left) THEN [exc |-> TRUE, tab |-> tab]
       ELSE IF right = "" THEN [exc |-> FALSE, tab |-> (name :> IntOf(left)) @@ tab]
       ELSE IF right \notin DOMAIN tab THEN [exc |-> TRUE, tab |-> tab]
       ELSE [exc |-> FALSE, tab |-> (name :> Xor(IntOf(left), tab[right])) @@ tab]

RECURSIVE DefineTokens(_, _)
\* the loop `for char, num in res`, in the order of the page, writing into
\* the table as it goes; what was written before an exception stays
DefineTokens(tab, defs) ==
    IF defs = <<>> THEN [exc |-> FALSE, tab |-> tab]
    ELSE LET r == DefineToken(tab, Head(defs))
         IN IF r.exc THEN r ELSE DefineTokens(r.tab, Tail(defs))

\* re.sub(expPortOnJS, self.char_js_port_to_num, page): every expression
\* site the pattern of the class matches becomes the digits it stands for
RewriteItem(c, tab, it) ==
    IF SchemeA(c) /\ it.k = "jsA" /\ it.v[2] = DelimOf(c)
    THEN LET r == char_js_port_to_num_A(tab, SubSeq(it.v, 3, Len(it.v)))
         IN [exc |-> r.exc, item |-> IpPort(it.v[1], r.val)]
    ELSE IF SchemeB(c) /\ it.k = "jsB"
    THEN LET r == char_js_port_to_num_B(tab, SubSeq(it.v, 2, Len(it.v)))
         IN [exc |-> r.exc, item |-> IpPort(it.v[1], r.val)]
    ELSE [exc |-> FALSE, item |-> it]
Rewrite(c, tab, page) ==
    [exc |-> \E i \in 1..Len(page) : RewriteItem(c, tab, page[i]).exc,
     page |-> [i \in 1..Len(page) |-> RewriteItem(c, tab, page[i]).item]]

\* a search that stops at the first match of the pattern
MatchesFirstOnly(c, page) ==
    LET m == SelectSeq(page, LAMBDA it : IsKind({"ipport", "b64", "b64bad"}, it))
    IN IF m = <<>> THEN <<>> ELSE <<Head(m)>>

\* self._pattern.findall(page): IPPortPatternGlobal matches the ip:port
\* items, the pattern of Proxy_list_org the Proxy('..') tokens, the
\* pattern of Nntime_com also an address with an empty port group
Matches(c, page) ==
    IF c = "Proxy_list_org"
    THEN SelectSeq(page, LAMBDA it : IsKind({"b64", "b64bad"}, it))
    ELSE IF c = "Nntime_com"
    THEN SelectSeq(page, LAMBDA it : IsKind({"ipport", "iponly"}, it))
    ELSE SelectSeq(page, LAMBDA it : IsKind({"ipport"}, it))
Candidates(c, page) ==
    LET m == Matches(c, page)
    IN [i \in 1..Len(m) |-> IF m[i].k = "iponly" THEN <<m[i].v[1], "">> ELSE m[i].v]

\* find_proxies(page) with self.charEqNum = tab: the list returned, or exc
\* when it raises (b64decode on a token that is not base64, KeyError or
\* ValueError of the interpreters), and self.charEqNum afterwards
find_proxies(c, page, tab) ==
    CASE c = "Proxy_list_org" ->
           IF \E i \in 1..Len(Matches(c, page)) : Matches(c, page)[i].k = "b64bad"
           THEN [exc |-> TRUE, val |-> <<>>, tab |-> tab]
           ELSE [exc |-> FALSE, val |-> Candidates(c, page), tab |-> tab]
      [] SchemeA(c) ->
           LET t == TableA(page)
               r == Rewrite(c, t, page)
           IN IF r.exc THEN [exc |-> TRUE, val |-> <<>>, tab |-> t]
              ELSE [exc |-> FALSE, val |-> Candidates(c, r.page), tab |-> t]
      [] SchemeB(c) ->
           LET d == DefineTokens(tab, Values(SelectSeq(page, LAMBDA it : IsKind({"tokdef"}, it))))
               r == Rewrite(c, d.tab, page)
           IN IF d.exc \/ r.exc THEN [exc |-> TRUE, val |-> <<>>, tab |-> d.tab]
              ELSE [exc |-> FALSE, val |-> Candidates(c, r.page), tab |-> d.tab]
      [] OTHER -> [exc |-> FALSE, val |-> Candidates(c, page), tab |-> tab]

\* try: received = self.find_proxies(page) / except Exception: received = []
Received(c, page, tab) ==
    LET r == find_proxies(c, page, tab) IN IF r.exc THEN <<>> ELSE r.val

\* a setter that tags a record with something that depends on the page it
\* came from (here the size of the batch) instead of self.proto alone
SetterTagsBatch(old, new, pr) ==
    IF \E i \in 1..Len(new) : Len(new[i]) # 2
    THEN [exc |-> TRUE, val |-> old]
    ELSE [exc |-> FALSE,
          val |-> old \cup {<<new[i][1], new[i][2], Append(pr, StrOf(Len(new)))>> :
                            i \in {j \in 1..Len(new) : new[j][2] # ""}}]

\* a setter that numbers the records it adds
SetterNumbersRecords(old, new, pr) ==
    IF \E i \in 1..Len(new) : Len(new[i]) # 2
    THEN [exc |-> TRUE, val |-> old]
    ELSE [exc |-> FALSE,
          val |-> old \cup {<<new[i][1], new[i][2], <<pr, Cardinality(old)>> >> :
                            i \in {j \in 1..Len(new) : new[j][2] # ""}}]

\* a setter without the test `if port`
SetterKeepsEmptyPort(old, new, pr) ==
    IF \E i \in 1..Len(new) : Len(new[i]) # 2
    THEN [exc |-> TRUE, val |-> old]
    ELSE [exc |-> FALSE, val |-> old \cup {<<new[i][1], new[i][2], pr>> : i \in 1..Len(new)}]

\* the proxies setter: `for host, port in new` raises ValueError on an
\* element that is not a pair; nothing is added then
Setter(old, new, pr) ==
    IF \E i \in 1..Len(new) : Len(new[i]) # 2
    THEN [exc |-> TRUE, val |-> old]
    ELSE [exc |-> FALSE,
          val |-> old \cup {<<new[i][1], new[i][2], pr>> :
                            i \in {j \in 1..Len(new) : new[j][2] # ""}}]

\* the candidates of a page that name a host and a non-empty port, as the
\* records the setter makes of them
Extracted(rec, pr) ==
    {<<rec[i][1], rec[i][2], pr>> : i \in {j \in 1..Len(rec) : Len(rec[j]) = 2 /\ rec[j][2] # ""}}

FindOnPageDeferred(c, page, old, pr, tab) ==
    [exc |-> FALSE, val |-> old, tab |-> tab, received |-> <<>>]

\* _find_on_page after get() returned page: whether it raises, the result
\* set and self.charEqNum afterwards, and the list `received`
FindOnPage(c, page, old, pr, tab) ==
    IF page = EmptyText
    THEN [exc |-> FALSE, val |-> old, tab |-> tab, received |-> <<>>]
    ELSE LET f == find_proxies(c, page, tab)
             rec == IF f.exc THEN <<>> ELSE f.val
             s == Setter(old, rec, pr)
         IN [exc |-> s.exc, val |-> s.val, tab |-> f.tab, received |-> rec]

\* the text _get returns: page is assigned before the status is tested and
\* returned after the except clause
GetPage(resp) == IF resp.status = 0 THEN EmptyText ELSE resp.body

\* get(): the loop ends on a non-empty page or after max_tries attempts
GetReturns(page, n, budget) == page # EmptyText \/ n >= budget

\* a request issued without waiting for a slot
SlotFreeAlways(value) == TRUE

\* asyncio.Semaphore: acquire proceeds only while the value is positive
SlotFree(value) == value > 0

\* a slot given back only when the block is left normally
ReleaseOnSuccess(value, resp) == IF resp.status = 200 THEN value + 1 ELSE value

\* leaving `async with self._sem_provider` releases the slot, however the
\* block was left
Release(value, resp) == value + 1

Req(u, d) == [url |-> u, data |-> d]
PlainReqs(urls) == [i \in 1..Len(urls) |-> Req(urls[i], <<>>)]

\* re.findall(exp, page) of the link patterns / of expSession.  A link to
\* the index page itself is matched by the patterns of My_proxy_com
\* (free-...) and Proxy_list_org (index.php?p=1) only; those of
\* Checkerproxy_net (/archive/<date>) and Blogspot_com (/yyyy/mm/) cannot
\* match it.
LinkUrls(c, page) ==
    LET m == SelectSeq(page, LAMBDA it : IsKind({"link"}, it) /\ (it.v[1] = HomeUrl => AppendsIndexUrl(c)))
    IN [i \in 1..Len(m) |-> m[i].v[1]]
SessionIds(page) ==
    LET m == SelectSeq(page, LAMBDA it : IsKind({"sid"}, it))
    IN [i \in 1..Len(m) |-> m[i].v[1]]

\* _find_on_pages(urls) for plain URLs: one page task per element of set(urls)
FindOnPagesPlainNoSet(urls) == PlainReqs(urls)
FindOnPagesPlain(urls) == PlainReqs(Dedup(urls))

\* Spys_ru._pipe from `sessionId = ...[0]` on: IndexError without a match,
\* else one POST per level, each carrying the token
SpysPosts(text) ==
    IF SessionIds(text) = <<>>
    THEN [exc |-> TRUE, reqs |-> <<>>]
    ELSE [exc |-> FALSE,
          reqs |-> [i \in 1..Len(Levels) |-> Req(HomeUrl, <<SessionIds(text)[1], Levels[i]>>)]]

\* _pipe without its `if not page: return`
PipeAfterIndexUnchecked(c, text) ==
    CASE c = "Spys_ru" -> SpysPosts(text)
      [] AppendsIndexUrl(c) ->
           [exc |-> FALSE, reqs |-> FindOnPagesPlain(Append(LinkUrls(c, text), HomeUrl))]
      [] OTHER ->
           [exc |-> FALSE, reqs |-> FindOnPagesPlain(LinkUrls(c, text))]

PipeAfterIndexStale(c, text) == PipeAfterIndexUnchecked(c, IndexText)

\* _pipe after its index fetch(es) returned text: the page requests handed
\* to _find_on_pages, or exc when _pipe raises.  Blogspot_com_base does not
\* test the text; the others return on an empty one.
PipeAfterIndex(c, text) ==
    CASE c = "Blogspot_com" ->
           [exc |-> FALSE, reqs |-> FindOnPagesPlain(LinkUrls(c, text))]
      [] c # "Blogspot_com" /\ text = EmptyText ->
           [exc |-> FALSE, reqs |-> <<>>]
      [] c = "Spys_ru" /\ text # EmptyText -> SpysPosts(text)
      [] AppendsIndexUrl(c) /\ text # EmptyText ->
           [exc |-> FALSE, reqs |-> FindOnPagesPlain(Append(LinkUrls(c, text), HomeUrl))]
      [] OTHER ->
           [exc |-> FALSE, reqs |-> FindOnPagesPlain(LinkUrls(c, text))]

\* the requests _pipe starts with: index fetches, or the page list
FirstReqs(c) ==
    CASE c = "Provider" -> <<Req(HomeUrl, <<>>)>>
      [] c \in {"Foxtools_ru", "Nntime_com"} -> FindOnPagesPlain(SubSeq(PageUrls, 1, NumPages))
      [] c = "Xseo_in" -> <<Req(HomeUrl, <<"submit">>)>>
      [] c = "Blogspot_com" -> PlainReqs(Domains)
      [] OTHER -> <<Req(HomeUrl, <<>>)>>

\* ------------------------------------------------------------ the state
IdleTask == [role |-> "none", url |-> "", data |-> <<>>, pc |-> "idle", tries |-> 0, allErr |-> TRUE, page |-> EmptyText]
NewTask(role, req) == [role |-> role, url |-> req.url, data |-> req.data, pc |-> "waiting", tries |-> 0, allErr |-> TRUE, page |-> EmptyText]
\* one coroutine per request of the list, all waiting for a slot
Spawn(role, reqs) == [i \in TaskIds |-> IF i <= Len(reqs) THEN NewTask(role, reqs[i]) ELSE IdleTask]
\* lastGet: the call of get() that returned in the step leading to the
\* current state (its attempts, the last response, whether every attempt
\* ended in an error, the text returned); NoGet when none did
NoGet == [tries |-> 0, resp |-> NoResponse, allErr |-> TRUE, page |-> EmptyText]

Active(t) == tasks[t].pc \in {"waiting", "inflight"}
InFlight == {t \in TaskIds : tasks[t].pc = "inflight"}
Quiescent == \A t \in TaskIds : ~Active(t)

\* a second source of the same class, constructed with the same arguments
\* and never run: its result set, its free slots, and what its
\* self.charEqNum evaluates to
OtherInstance(mc) == [proxies |-> {}, sem_provider |-> mc, charEqNum |-> EmptyTable]

\* self.charEqNum after find_proxies left tab in it, seen from the other
\* instance: Spys_ru never assigns the attribute, it writes into the dict
\* of the class, which every instance reads; Xseo_in and Nntime_com bind
\* a new dict to the instance
SeenByOther(c, o, tab) == IF SchemeB(c) THEN [o EXCEPT !.charEqNum = tab] ELSE o

\* ---- Nntime_com._pattern on the characters of an address ----
\* A text is  "1.2.3." octet sep run [" 5.6.7.8"]:  the digits written as the
\* fourth octet, a separator that is neither a digit nor a dot, a run of
\* digits, and possibly another address after it.
Min(a, b) == IF a < b THEN a ELSE b
RECURSIVE DigitSeqs(_, _)
DigitSeqs(ds, n) ==
    IF n = 0 THEN {<<>>}
    ELSE DigitSeqs(ds, n - 1) \cup {Append(d, x) : d \in DigitSeqs(ds, n - 1), x \in ds}
RECURSIVE DigitsValue(_)
DigitsValue(d) ==
    IF d = <<>> THEN 0 ELSE (10 * DigitsValue(SubSeq(d, 1, Len(d) - 1))) + d[Len(d)]
OctetDigits == {1, 2, 5, 6}
RunDigits == {3, 5, 6}
Texts == [octet : DigitSeqs(OctetDigits, MaxOctetLen) \ {<<>>}, run : DigitSeqs(RunDigits, MaxRunLen), ip : BOOLEAN]
\* a text the pattern has not been applied to yet
Unscanned(text) == [text |-> text, done |-> FALSE, found |-> FALSE, octet |-> <<>>, port |-> <<>>]
NoScan == Unscanned([octet |-> <<1>>, run |-> <<>>, ip |-> FALSE])

\* (?:25[0-5]|2[0-4]\d|[01]?\d\d?) at the digits d: the lengths the regex
\* engine tries for the group, in its order (alternatives left to right,
\* optional parts greedy first)
OctetTries(d) ==
    LET n == Len(d)
        a1 == IF n >= 3 /\ d[1] = 2 /\ d[2] = 5 /\ d[3] <= 5 THEN <<3>> ELSE <<>>
        a2 == IF n >= 3 /\ d[1] = 2 /\ d[2] <= 4 THEN <<3>> ELSE <<>>
        two == IF n >= 2 THEN <<2>> ELSE <<>>
        a3 == (IF d[1] <= 1 THEN (IF n >= 3 THEN <<3>> ELSE <<>>) \o two ELSE <<>>) \o two \o <<1>>
    IN a1 \o a2 \o a3
\* (?P<port>\d{2,5}) at a run of digits: greedy, at most five of them
PortGroup(run) ==
    [ok |-> Len(run) >= MinPortDigits, port |-> SubSeq(run, 1, Min(MaxPortDigits, Len(run)))]
\* (?=.*?(?:<address>|(?P<port>\d{2,5}))) after the octet: .*? moves right
\* until an address or two digits start; the port group is empty when the
\* address alternative matched
Lookahead(left, text) ==
    IF PortGroup(left).ok THEN [ok |-> TRUE, port |-> PortGroup(left).port]
    ELSE IF PortGroup(text.run).ok THEN [ok |-> TRUE, port |-> PortGroup(text.run).port]
    ELSE [ok |-> text.ip, port |-> <<>>]
\* the first match of _pattern in the text: the first length of the fourth
\* octet for which the lookahead succeeds
PatternMatch(text) ==
    LET tries == OctetTries(text.octet)
        Left(i) == SubSeq(text.octet, tries[i] + 1, Len(text.octet))
        good == {i \in 1..Len(tries) : Lookahead(Left(i), text).ok}
    IN IF good = {} THEN [text |-> text, done |-> TRUE, found |-> FALSE, octet |-> <<>>, port |-> <<>>]
       ELSE LET i == CHOOSE i \in good : \A j \in good : i <= j
            IN [text |-> text, done |-> TRUE, found |-> TRUE, octet |-> SubSeq(text.octet, 1, tries[i]),
                port |-> Lookahead(Left(i), text).port]

\* open(self.url).read(): the text of the file, or ok = FALSE when open or
\* read raises (no such file, no permission, not decodable)
NoFile == [ok |-> FALSE, text |-> EmptyText]
Files == {NoFile} \cup [ok : {TRUE}, text : Bodies]

\* __init__ with max_conn and max_tries taken from the given sets
Constructed(conns, tries) ==
    /\ cls \in Classes
    /\ proto = <<"HTTP", "HTTPS">>
    /\ max_conn \in conns
    /\ max_tries \in tries
    /\ sem_provider = max_conn
    /\ sessionClosed = TRUE
    /\ proxies = {}
    /\ tasks = [i \in TaskIds |-> IdleTask]
    /\ gp = "idle"
    /\ indexText = EmptyText
    /\ grew = FALSE
    /\ lastGet = NoGet
    /\ charEqNum = EmptyTable
    /\ other = OtherInstance(max_conn)
    /\ expected = {}
    /\ fileRead = NoFile

\* the sources of PROVIDERS and any other made with a positive concurrency
\* limit and retry budget
Init == Constructed(1..MaxConn, 1..MaxTries) /\ scan = NoScan

\* __init__ stores whatever it is given: Semaphore(0) and max_tries = 0
\* are accepted
ConfigInit == Constructed(0..MaxConn, 0..MaxTries) /\ scan = NoScan

\* get_proxies is called: the session is opened and _pipe runs up to its
\* first await.  The caller calls again only when the tasks of the
\* previous call have ended.
Start ==
    /\ cls # "FileProvider"
    /\ gp \in {"idle", "returned", "raised"}
    /\ Quiescent
    /\ sessionClosed' = FALSE
    /\ indexText' = EmptyText
    /\ grew' = FALSE
    /\ lastGet' = NoGet
    /\ tasks' = Spawn(IF HasIndex(cls) THEN "index" ELSE "page", FirstReqs(cls))
    /\ gp' = IF HasIndex(cls) THEN "index" ELSE "pages"
    /\ expected' = proxies
    /\ UNCHANGED <<config, sem_provider, proxies, charEqNum, other, fileRead, scan>>

\* one attempt of task t ended with resp: _get returns, the loop of get()
\* goes on or get() returns, and _find_on_page runs to its end
AttemptEnds(t, resp) ==
    LET page == GetPage(resp)
        n == tasks[t].tries + 1
        ae == tasks[t].allErr /\ resp.status # 200
    IN IF ~GetReturns(page, n, max_tries)
       THEN /\ tasks' = [tasks EXCEPT ![t].pc = "waiting", ![t].tries = n, ![t].allErr = ae]
            /\ lastGet' = NoGet
            /\ UNCHANGED <<proxies, grew, charEqNum, other, expected>>
       ELSE /\ lastGet' = [tries |-> n, resp |-> resp, allErr |-> ae, page |-> page]
            /\ IF tasks[t].role = "index"
               THEN /\ tasks' = [tasks EXCEPT ![t].pc = "done", ![t].tries = 0, ![t].allErr = TRUE, ![t].page = page]
                    /\ UNCHANGED <<proxies, grew, charEqNum, other, expected>>
               ELSE LET r == FindOnPage(cls, page, proxies, proto, charEqNum)
                    IN /\ proxies' = r.val
                       /\ charEqNum' = r.tab
                       /\ other' = SeenByOther(cls, other, r.tab)
                       /\ expected' = expected \cup Extracted(r.received, proto)
                       /\ grew' = (grew \/ r.val # proxies)
                       /\ tasks' = [tasks EXCEPT ![t].pc = IF r.exc THEN "failed" ELSE "done",
                                                 ![t].tries = 0, ![t].allErr = TRUE]

\* _get: the slot is taken and the request issued; on a closed session
\* request() raises at once and the slot is given back in the same step
Acquire(t) ==
    /\ tasks[t].pc = "waiting"
    /\ max_tries > 0
    /\ SlotFree(sem_provider)
    /\ IF sessionClosed
       THEN /\ sem_provider' = Release(sem_provider - 1, NoResponse)
            /\ AttemptEnds(t, NoResponse)
       ELSE /\ sem_provider' = sem_provider - 1
            /\ tasks' = [tasks EXCEPT ![t].pc = "inflight"]
            /\ lastGet' = NoGet
            /\ UNCHANGED <<proxies, grew, charEqNum, other, expected>>
    /\ UNCHANGED <<config, sessionClosed, gp, indexText, fileRead, scan>>

\* the response, an error or the timeout arrives
EndRequest(t, resp) ==
    /\ tasks[t].pc = "inflight"
    /\ sem_provider' = Release(sem_provider, resp)
    /\ AttemptEnds(t, resp)
    /\ UNCHANGED <<config, sessionClosed, gp, indexText, fileRead, scan>>

IndexPages == [i \in 1..Len(FirstReqs(cls)) |-> tasks[i].page]

\* every index fetch returned: _pipe goes on to _find_on_pages, returns or raises
Plan ==
    /\ gp = "index"
    /\ \A t \in TaskIds : tasks[t].role = "index" => tasks[t].pc = "done"
    /\ LET text == Join(IndexPages)
           r == PipeAfterIndex(cls, text)
       IN /\ indexText' = text
          /\ tasks' = Spawn("page", r.reqs)
          /\ gp' = IF r.exc THEN "raised" ELSE IF r.reqs = <<>> THEN "returned" ELSE "pages"
          /\ sessionClosed' = (r.exc \/ r.reqs = <<>>)
    /\ lastGet' = NoGet
    /\ UNCHANGED <<config, sem_provider, proxies, grew, charEqNum, other, expected, fileRead, scan>>

\* every page task returned: get_proxies returns self.proxies
Return ==
    /\ gp = "pages"
    /\ \A t \in TaskIds : tasks[t].pc \in {"idle", "done"}
    /\ gp' = "returned"
    /\ sessionClosed' = TRUE
    /\ lastGet' = NoGet
    /\ UNCHANGED <<config, sem_provider, proxies, tasks, indexText, grew, charEqNum, other, expected, fileRead, scan>>

\* a task raised: the exception leaves gather, _pipe and get_proxies, the
\* session is closed; the other tasks are not cancelled
Raise ==
    /\ gp \in {"index", "pages"}
    /\ \E t \in TaskIds : tasks[t].pc = "failed"
    /\ gp' = "raised"
    /\ sessionClosed' = TRUE
    /\ lastGet' = NoGet
    /\ UNCHANGED <<config, sem_provider, proxies, tasks, indexText, grew, charEqNum, other, expected, fileRead, scan>>

\* get_proxies of FileProvider: _pipe reads the file, matches and merges
\* without any await in between, so the call runs to its end in one step;
\* an exception of open/read or of the setter leaves get_proxies
RunFile(f) ==
    /\ cls = "FileProvider"
    /\ gp \in {"idle", "returned", "raised"}
    /\ fileRead' = f
    /\ LET s == IF f.ok THEN Setter(proxies, find_proxies(cls, f.text, charEqNum).val, proto)
                 ELSE [exc |-> TRUE, val |-> proxies]
       IN /\ proxies' = s.val
          /\ grew' = (s.val # proxies)
          /\ gp' = IF s.exc THEN "raised" ELSE "returned"
    /\ expected' = proxies \cup Extracted(Received("Provider", f.text, charEqNum), proto)
    /\ lastGet' = NoGet
    /\ UNCHANGED <<config, sem_provider, sessionClosed, tasks, indexText, charEqNum, other, scan>>

\* self._pattern.findall(page) of Nntime_com on the text of scan
FindAll ==
    /\ ~scan.done
    /\ scan' = PatternMatch(scan.text)
    /\ UNCHANGED <<config, sem_provider, sessionClosed, proxies, tasks, gp, indexText, grew, lastGet, charEqNum, other, expected, fileRead>>

\* get() with max_tries = 0: the loop body never runs and `return page`
\* raises UnboundLocalError before any request is made
GetRaises(t) ==
    /\ tasks[t].pc = "waiting"
    /\ max_tries = 0
    /\ tasks' = [tasks EXCEPT ![t].pc = "failed"]
    /\ lastGet' = NoGet
    /\ UNCHANGED <<config, sem_provider, sessionClosed, proxies, gp, indexText, grew, charEqNum, other, expected, fileRead, scan>>

Next ==
    \/ Start
    \/ \E t \in TaskIds : Acquire(t)
    \/ \E t \in TaskIds, resp \in ResponsesOf(cls) : EndRequest(t, resp)
    \/ Plan
    \/ Return
    \/ Raise
    \/ \E f \in Files : RunFile(f)

Spec == Init /\ [][Next]_vars

\* the same program, started from any configuration __init__ accepts
\* the proximity pattern applied to every text of Texts
PatternInit ==
    /\ Constructed({1}, {1})
    /\ cls = "Nntime_com"
    /\ scan \in {Unscanned(text) : text \in Texts}
PatternNext == FindAll
PatternSpec == PatternInit /\ [][PatternNext]_vars

ConfigNext == Next \/ \E t \in TaskIds : GetRaises(t)
ConfigSpec == ConfigInit /\ [][ConfigNext]_vars

\* Scheduling: the event loop runs every ready coroutine, a waiter of the
\* semaphore is woken when a slot is released, and every issued request
\* ends (response, error or the ClientTimeout of _get).  Calling get_proxies
\* again is the caller's choice and carries no fairness.
FairSpec ==
    /\ Spec
    /\ \A t \in TaskIds : WF_vars(Acquire(t))
    /\ \A t \in TaskIds : WF_vars(\E resp \in ResponsesOf(cls) : EndRequest(t, resp))
    /\ WF_vars(Plan)
    /\ WF_vars(Return)
    /\ WF_vars(Raise)

\* ----------------------------------------------------------------- claims
PageTasks == {t \in TaskIds : tasks[t].role = "page"}
Finished == gp \in {"returned", "raised"}
GetReturned == lastGet.tries > 0
Success(resp) == resp.status = 200 /\ resp.body # EmptyText

\* C1: at no moment are more requests of the source in flight than max_conn,
\* index fetches and retries included.
C1_InFlightBounded == Cardinality(InFlight) <= max_conn

\* all slots taken while the retry of an index fetch waits for one
C1_Witness ==
    /\ Cardinality(InFlight) = max_conn
    /\ \E t \in TaskIds : tasks[t].pc = "waiting" /\ tasks[t].role = "index" /\ tasks[t].tries > 0

\* C2: get() makes at most max_tries attempts, stops before the budget is
\* used up only on an attempt that succeeded with a non-empty body, and
\* returns the body of the successful attempt (fail, fail, success: three
\* requests, the third body).
C2_RetryUntilSuccess ==
    GetReturned =>
        /\ lastGet.tries <= max_tries
        /\ (lastGet.tries < max_tries => Success(lastGet.resp))
        /\ (Success(lastGet.resp) => lastGet.page = lastGet.resp.body)

\* C3: get() never returns the body of a response whose status is not 200:
\* such an attempt yields the empty text.
C3_BadStatusBodyDiscarded ==
    (GetReturned /\ lastGet.resp.status # 200) => lastGet.page = EmptyText

\* C4: when every attempt of a get() ended in a network, timeout or
\* bad-status error, each used one attempt of the budget and get() returns
\* the empty text.
C4_ErrorsEndInEmptyText ==
    (GetReturned /\ lastGet.allErr) =>
        (lastGet.tries = max_tries /\ lastGet.page = EmptyText)

\* C5: free slots + requests in flight = max_conn in every state, and all
\* slots are free once no task of the source is running.
C5_SlotAccounting ==
    /\ sem_provider + Cardinality(InFlight) = max_conn
    /\ (Quiescent => sem_provider = max_conn)

\* a get() whose attempts all ended in an error has used its budget of
\* several attempts, and nothing is running any more
C5_Witness ==
    /\ Quiescent
    /\ GetReturned /\ lastGet.allErr /\ lastGet.tries = max_tries /\ max_tries > 1
    /\ sem_provider = max_conn

\* C6: a failure while one fetched page is turned into records stays in
\* that page: no page task ends with an exception and get_proxies of a
\* multi-page source does not raise.
C6_ExtractionFailureContained ==
    /\ \A t \in TaskIds : tasks[t].pc # "failed"
    /\ (cls \in {"Foxtools_ru", "Checkerproxy_net", "My_proxy_com", "Proxy_list_org", "Blogspot_com"} => gp # "raised")

\* C7: when the index/session fetch of a source returned the empty text,
\* the run ends by returning, no page request was issued and no record
\* was added.
C7_EmptyDiscoveryYieldsNothing ==
    (HasIndex(cls) /\ gp \in {"pages", "returned", "raised"} /\ indexText = EmptyText) =>
        (gp = "returned" /\ PageTasks = {} /\ ~grew)

\* a later run of a source that already holds records finds its index empty
C7_Witness ==
    /\ HasIndex(cls) /\ gp = "returned" /\ indexText = EmptyText
    /\ proxies # {}

\* C8: when the index page of the session-token source is non-empty but
\* holds no token, the run ends by returning, no POST was issued and no
\* record was added.
C8_MissingTokenYieldsNothing ==
    (cls = "Spys_ru" /\ gp \in {"pages", "returned", "raised"}
       /\ indexText # EmptyText /\ SessionIds(indexText) = <<>>) =>
        (gp = "returned" /\ PageTasks = {} /\ ~grew)

\* C9: under fair scheduling every run of get_proxies ends by returning,
\* with no task of the source left waiting or in flight.
C9_RunReturns == (gp \in {"index", "pages"}) ~> (gp = "returned" /\ Quiescent)

\* C10: the result set never holds two records with the same (host, port).
C10_NoDuplicateHostPort ==
    \A a \in proxies, b \in proxies : (a[1] = b[1] /\ a[2] = b[2]) => a = b

\* a page listing only addresses the set already holds (from an earlier
\* page or run) was merged into a set of several records
C10_Witness ==
    /\ GetReturned /\ Received(cls, lastGet.page, charEqNum) # <<>>
    /\ ~grew
    /\ Cardinality(proxies) >= 2

\* the sources whose pages are fetched by _find_on_pages
PageListSource(c) == c \notin {"Provider", "Xseo_in", "FileProvider"}

\* C11: for a page-list source, under every interleaving of its page
\* tasks, once all page tasks have finished the result set is what it was
\* at the start of the call plus exactly the candidates with a non-empty
\* port extracted from the pages whose fetch returned non-empty text.
C11_ConcurrentMergeIsUnion ==
    (PageListSource(cls) /\ gp \in {"pages", "returned", "raised"} /\ Quiescent) =>
        proxies = expected

\* task t is a page task whose get() returns a non-empty text in this
\* step, so that find_proxies and the setter run in it
Processed(t) ==
    /\ tasks[t].role = "page" /\ Active(t)
    /\ tasks'[t].pc \in {"done", "failed"}
    /\ lastGet'.page # EmptyText

\* the tokens a page defines: the matches of expCharNum
DefinedOn(page) ==
    LET d == SelectSeq(page, LAMBDA it : IsKind({"chardef", "tokdef"}, it))
    IN {d[i].v[1] : i \in 1..Len(d)}

\* C12: for both schemes, the symbol table with which the port expressions
\* of a page are rewritten holds no token but those the page itself
\* defines: a token defined only on another page of the source is never
\* used to resolve an expression of this page.
C12_TableIsThisPages ==
    [][\A t \in TaskIds :
         (Processed(t) /\ (SchemeA(cls) \/ SchemeB(cls))) =>
             DOMAIN charEqNum' \subseteq DefinedOn(lastGet'.page)]_vars

\* the page texts a page request of class c may return
PageTexts(c) == {r.body : r \in ResponsesOf(c)} \ {EmptyText}

\* the result set after the page tasks of texts a and b were processed in
\* this order, starting from result set old and table tab
MergedInOrder(c, a, b, old, pr, tab) ==
    LET first == FindOnPage(c, a, old, pr, tab)
    IN FindOnPage(c, b, first.val, pr, first.tab).val

\* C13: while the two page requests of a source are in flight, for any two
\* page texts they may return, the result set after both were processed
\* does not depend on which of the two fetches completes first, also for
\* the sources that use a deobfuscation interpreter.
C13_PageOrderIrrelevant ==
    (\E t \in TaskIds, u \in TaskIds : t # u /\ PageTasks = {t, u} /\ InFlight = {t, u}) =>
        \A a \in PageTexts(cls), b \in PageTexts(cls) :
            MergedInOrder(cls, a, b, proxies, proto, charEqNum)
                = MergedInOrder(cls, b, a, proxies, proto, charEqNum)

\* C14: no step of a source, its failures and exceptions included, changes
\* the result set, the free slots or the symbol table of another source,
\* also when the other source is an instance of the same class.
C14_OtherSourceUntouched == [][other' = other]_vars

\* a task is inside get(), waiting for a slot of a semaphore that holds
\* none and that no request in flight will release
Blocked ==
    /\ max_tries > 0 /\ sem_provider = 0 /\ InFlight = {}
    /\ \E t \in TaskIds : tasks[t].pc = "waiting"

\* C15: a source that was constructed neither raises nor blocks forever
\* during a run because of its configuration (a retry budget of 0 or a
\* concurrency limit of 0 having been rejected by the constructor).
C15_ConfigNeverBreaksRun ==
    /\ ~Blocked
    /\ (max_tries = 0 => gp # "raised")

\* the pairs host:port a text contains
PairsOn(page) ==
    LET m == SelectSeq(page, LAMBDA it : IsKind({"ipport"}, it))
    IN {m[i].v : i \in 1..Len(m)}

\* C16: when the fetch of a single-page source that holds no record yet
\* returns a text containing the pairs h1:p1 .. hk:pk, its result set is
\* exactly those pairs; and every record of a result set carries the
\* capability set declared by the source.
C16_SinglePageExactPairs ==
    [][/\ \A r \in proxies' : r[3] = proto'
       /\ \A t \in TaskIds :
            (cls = "Provider" /\ Processed(t) /\ proxies = {}) =>
                {<<r[1], r[2]>> : r \in proxies'} = PairsOn(lastGet'.page)]_vars

\* the fetch of a single-page source returned a text with two pairs and
\* the result set holds those two
C16_Witness ==
    /\ cls = "Provider" /\ GetReturned /\ lastGet.page = PageTwo
    /\ {<<r[1], r[2]>> : r \in proxies} = PairsOn(PageTwo)
    /\ Cardinality(proxies) = 2

CandidateLists == {Received(cls, page, charEqNum) : page \in PageTexts(cls)}

\* self.proxies = new, twice
MergedTwice(old, new, pr) == Setter(Setter(old, new, pr).val, new, pr).val

\* C18: from any result set, merging the same candidate list twice yields
\* the same result set, of the same size, as merging it once.
C18_MergeIdempotent ==
    \A new \in CandidateLists :
        /\ MergedTwice(proxies, new, proto) = Setter(proxies, new, proto).val
        /\ Cardinality(MergedTwice(proxies, new, proto))
             = Cardinality(Setter(proxies, new, proto).val)

\* a page whose candidates all are in the result set already was merged
\* again and added nothing, while another page would still add a record
C18_Witness ==
    /\ GetReturned /\ ~grew /\ proxies # {}
    /\ Extracted(Received(cls, lastGet.page, charEqNum), proto) = proxies
    /\ \E new \in CandidateLists : Setter(proxies, new, proto).val # proxies

\* a page task's get() returned a non-empty text in the step that led
\* here, during the page phase of the call
PageProcessed == GetReturned /\ gp = "pages" /\ lastGet.page # EmptyText

\* the scheme B definitions of a page, in their order: <<name, left, right>>
TokDefs(page) == Values(SelectSeq(page, LAMBDA it : IsKind({"tokdef"}, it)))

\* the definition of token x that is the last one before definition i
Latest(defs, i, x) ==
    CHOOSE j \in 1..(i - 1) : defs[j][1] = x /\ \A k \in (j + 1)..(i - 1) : defs[k][1] # x
DefinedBefore(defs, i, x) == \E j \in 1..(i - 1) : defs[j][1] = x

RECURSIVE RefValue(_, _)
\* what definition i stands for when the definitions are read in order: a
\* literal is its value, a token the value of its latest definition, and
\* left^right the XOR of the two
RefValue(defs, i) ==
    LET Operand(x) == IF IsNumeral(x) THEN IntOf(x) ELSE RefValue(defs, Latest(defs, i, x))
    IN IF defs[i][3] = "" THEN Operand(defs[i][2])
       ELSE Xor(Operand(defs[i][2]), Operand(defs[i][3]))

\* every token of the page is in the table with the value its last
\* definition stands for
TableMatches(defs) ==
    \A i \in 1..Len(defs) :
        (\A k \in (i + 1)..Len(defs) : defs[k][1] # defs[i][1]) =>
            /\ defs[i][1] \in DOMAIN charEqNum
            /\ charEqNum[defs[i][1]] = RefValue(defs, i)

\* each definition is a literal, or the XOR of two tokens defined before it
LiteralsAndTokenPairs(defs) ==
    /\ defs # <<>>
    /\ \A i \in 1..Len(defs) :
         IF defs[i][3] = "" THEN IsNumeral(defs[i][2])
         ELSE DefinedBefore(defs, i, defs[i][2]) /\ DefinedBefore(defs, i, defs[i][3])

\* each definition is a literal, or literal^token with the token defined
\* before it
LiteralsAndLiteralToken(defs) ==
    /\ defs # <<>>
    /\ \A i \in 1..Len(defs) :
         /\ IsNumeral(defs[i][2])
         /\ defs[i][3] # "" => DefinedBefore(defs, i, defs[i][3])

\* C19 as stated: scheme B resolves the definitions of a page in their
\* order of appearance, a composite definition being the XOR of two
\* previously defined tokens (aaaa=5, bbbb=3, cccc=aaaa^bbbb gives 6).
C19_TokenXorToken ==
    (PageProcessed /\ SchemeB(cls) /\ LiteralsAndTokenPairs(TokDefs(lastGet.page))) =>
        TableMatches(TokDefs(lastGet.page))

\* C19 amended: scheme B resolves the definitions of a page in their order
\* of appearance, a composite definition being the XOR of a literal
\* integer and a previously defined token (bbbb=3, cccc=6^bbbb gives 5).
C19_LiteralXorToken ==
    (PageProcessed /\ SchemeB(cls) /\ LiteralsAndLiteralToken(TokDefs(lastGet.page))) =>
        TableMatches(TokDefs(lastGet.page))

\* the page with aaaa=5, bbbb=3, cccc=6^bbbb was processed and cccc is 5
C19_Witness ==
    /\ PageProcessed /\ SchemeB(cls) /\ lastGet.page = TokensOne
    /\ "cccc" \in DOMAIN charEqNum /\ charEqNum["cccc"] = 5

\* the port expressions of a page: <<host, varA, varB, varA, varB, ..>>
PortExprs(page) == Values(SelectSeq(page, LAMBDA it : IsKind({"jsB"}, it)))

RECURSIVE PortOf(_, _)
\* the decimal strings of tab[varA] XOR tab[varB], pair after pair
PortOf(pairs, tab) ==
    IF Len(pairs) < 2 THEN ""
    ELSE StrOf(Xor(tab[pairs[1]], tab[pairs[2]])) \o PortOf(SubSeq(pairs, 3, Len(pairs)), tab)

\* C20: when a page of the scheme B source is processed, each port
\* expression made of pairs (varA^varB) joined by + is replaced by the
\* concatenation, in order, of the decimal strings of
\* table[varA] XOR table[varB], and the address is merged with that port
\* (table aaaa=5, bbbb=3: (aaaa^bbbb) becomes "6").
C20_PairsRewritten ==
    LET exprs == PortExprs(lastGet.page)
        defs == TokDefs(lastGet.page)
    IN (/\ PageProcessed /\ SchemeB(cls)
        /\ defs = <<>> \/ LiteralsAndLiteralToken(defs)
        /\ \A i \in 1..Len(exprs) : \A j \in 2..Len(exprs[i]) : exprs[i][j] \in DOMAIN charEqNum) =>
           \A i \in 1..Len(exprs) :
               <<exprs[i][1], PortOf(Tail(exprs[i]), charEqNum), proto>> \in proxies

\* the page with aaaa=5, bbbb=3, cccc=6^bbbb and the port expression
\* +(aaaa^bbbb)+(cccc^aaaa) was processed: the port is "6" then "0"
C20_Witness ==
    /\ PageProcessed /\ SchemeB(cls) /\ lastGet.page = TokensOne
    /\ <<"h1", "60", proto>> \in proxies

\* the expression sites of a page written with the delimiter of class c:
\* <<host, delim, letter, letter, ..>>
SitesA(c, page) ==
    Values(SelectSeq(page, LAMBDA it : IsKind({"jsA"}, it) /\ it.v[2] = DelimOf(c)))

RECURSIVE DigitsOf(_, _)
\* the digits the letters stand for, letter after letter
DigitsOf(letters, tab) ==
    IF letters = <<>> THEN "" ELSE tab[Head(letters)] \o DigitsOf(Tail(letters), tab)

\* C21: when a page of a scheme A source is processed, every expression
\* site written with the delimiter of the source and built from letters
\* the page defines is replaced by the digits of those letters, in their
\* order and without the +, and the address is merged with that port; the
\* same for both sources of the scheme.
C21_LettersRewritten ==
    LET sites == SitesA(cls, lastGet.page)
    IN (/\ PageProcessed /\ SchemeA(cls)
        /\ \A i \in 1..Len(sites) : \A j \in 3..Len(sites[i]) : sites[i][j] \in DOMAIN charEqNum) =>
           /\ charEqNum = TableA(lastGet.page)
           /\ \A i \in 1..Len(sites) :
                <<sites[i][1], DigitsOf(SubSeq(sites[i], 3, Len(sites[i])), charEqNum), proto>> \in proxies

\* the single page of Xseo_in with a=8, b=0 and the site (""+a+b) was
\* processed: the port is "80"
C21_Witness ==
    /\ PageProcessed /\ cls = "Xseo_in" /\ lastGet.page = CharsOne
    /\ <<"h1", "80", proto>> \in proxies

\* C22: the local-file source keeps the contract of a single-page network
\* source: after a call its result set is what a single-page source whose
\* fetch returned the file's content would hold, and an unreadable file
\* or an extraction failure gives zero results without get_proxies raising.
C22_FileSameContract ==
    (cls = "FileProvider" /\ gp \in {"returned", "raised"}) =>
        (gp = "returned" /\ proxies = expected)

\* C23: every pair returned by the pattern matcher is a syntactically
\* valid IPv4 host (each octet 0..255) with a port whose numeric value
\* lies in 0..65535 (so the port has digits).
C23_PairsInRange ==
    scan.found =>
        /\ scan.octet # <<>> /\ DigitsValue(scan.octet) <= 255
        /\ scan.port # <<>> /\ DigitsValue(scan.port) <= 65535

\* what urls.append(url) of My_proxy_com / Proxy_list_org adds to the links
Appended(c) == IF AppendsIndexUrl(c) THEN {HomeUrl} ELSE {}
\* the request of a page task is made of the index content text: a POST to
\* the index URL carrying the first token of text, or a plain request to
\* one of urls
FromIndex(task, text, urls) ==
    IF cls = "Spys_ru"
    THEN /\ SessionIds(text) # <<>>
         /\ task.url = HomeUrl
         /\ task.data # <<>> /\ task.data[1] = SessionIds(text)[1]
    ELSE task.data = <<>> /\ task.url \in urls
Links(text) == {LinkUrls(cls, text)[i] : i \in 1..Len(LinkUrls(cls, text))}
\* a step in which page tasks are created
PhaseTwoBegins == \E t \in TaskIds : tasks'[t].role = "page" /\ tasks[t].role # "page"

\* C24: crawls with a discovery or session step are two-phase: no page
\* request and no session POST is issued before every index fetch, with
\* all its retries, has finished; every page URL requested in the second
\* phase was discovered in this run's index content, and every session
\* POST carries the token of this run's index page.
C24_PagesDiscovered ==
    (HasIndex(cls) /\ gp = "pages") =>
        \A t \in PageTasks : FromIndex(tasks[t], indexText, Links(indexText))

\* C24 amended: as above, but a page URL of the second phase is either
\* discovered in this run's index content or the index URL itself, which
\* My_proxy_com and Proxy_list_org append to the discovered links.
C24_TwoPhase ==
    [][/\ (HasIndex(cls) /\ PhaseTwoBegins) =>
            /\ gp = "index"
            /\ \E t \in TaskIds : tasks[t].role = "index"
            /\ \A t \in TaskIds : tasks[t].role = "index" => tasks[t].pc = "done"
            /\ indexText' = Join(IndexPages)
       /\ (HasIndex(cls) /\ gp' = "pages") =>
            \A t \in TaskIds : tasks'[t].role = "page" =>
                FromIndex(tasks'[t], indexText', Links(indexText') \cup Appended(cls))]_vars
C24_Witness ==
    /\ cls = "My_proxy_com" /\ gp = "pages" /\ indexText = IndexText
    /\ \E t, u \in PageTasks : /\ tasks[t].url = HomeUrl /\ tasks[t].pc = "inflight"
                              /\ tasks[u].url = "p1" /\ tasks[u].pc = "done"

\* C25: once get_proxies has finished, by returning or by raising, no
\* task of the source is still waiting for a slot and no request of it is
\* in flight (so nothing is left that could change the result set before
\* the next run).
C25_NothingLeftRunning == Finished => Quiescent

\* the requests task t has issued in its get() so far
Issued(t) == tasks[t].tries + (IF tasks[t].pc = "inflight" THEN 1 ELSE 0)
\* the (at least one) request the finished index fetch of url took
IndexIssued(url) ==
    IF HasIndex(cls) /\ \E i \in 1..Len(FirstReqs(cls)) : FirstReqs(cls)[i].url = url THEN 1 ELSE 0
\* the distinct URLs of the list handed to _find_on_pages
PageList ==
    IF HasIndex(cls) THEN Links(indexText) \cup Appended(cls)
    ELSE IF cls \in {"Foxtools_ru", "Nntime_com"} THEN {PageUrls[i] : i \in 1..NumPages}
    ELSE {}
PlainList == cls \in {"Foxtools_ru", "Nntime_com", "Checkerproxy_net", "My_proxy_com", "Proxy_list_org", "Blogspot_com"}

\* C26: for a page list of plain URLs each distinct URL is crawled as
\* exactly one page however often it occurs in the list, so one run issues
\* at most max_tries requests per distinct URL; an empty page list issues
\* no request.
C26_RequestsPerUrl ==
    (PlainList /\ gp = "pages") =>
        /\ \A url \in PageList : Cardinality({t \in PageTasks : tasks[t].url = url}) = 1
        /\ \A t \in PageTasks : IndexIssued(tasks[t].url) + Issued(t) <= max_tries
        /\ (PageList = {} => PageTasks = {})

\* C26 amended: each distinct URL of the list is crawled as exactly one
\* page, whose get() issues at most max_tries requests; the requests of the
\* index fetch of the same URL come on top.  An empty list creates no task.
C26_OnePagePerUrl ==
    (PlainList /\ gp = "pages") =>
        /\ \A url \in PageList : Cardinality({t \in PageTasks : tasks[t].url = url}) = 1
        /\ \A t \in PageTasks : tasks[t].url \in PageList /\ Issued(t) <= max_tries
        /\ (PageList = {} => PageTasks = {})
\* the index page links to itself and twice to p1: three page tasks, the
\* one of the index URL at its last attempt
C26_Witness ==
    /\ cls = "Proxy_list_org" /\ gp = "pages" /\ indexText = IndexText
    /\ Cardinality(PageTasks) = 3
    /\ \E t \in PageTasks : tasks[t].url = HomeUrl /\ Issued(t) = max_tries /\ max_tries > 1

\* C27: processing one fetched page (building the symbol table, rewriting,
\* matching, merging) has no suspension point: in the very step in which
\* the get() of a page task returns a non-empty text, the result set
\* becomes the one before the step plus the candidates find_proxies gives
\* for that text from the table before the step (or stays, when the
\* setter raises), the task ends, and no other task moves.
C27_PageProcessedInOneStep ==
    [][\A t \in TaskIds : Processed(t) =>
         /\ \A u \in TaskIds \ {t} : tasks'[u] = tasks[u]
         /\ proxies' = IF tasks'[t].pc = "done"
                       THEN proxies \cup Extracted(Received(cls, lastGet'.page, charEqNum), proto)
                       ELSE proxies]_vars
\* a page of Nntime_com was processed while the request of the other page
\* is in flight
C27_Witness ==
    /\ PageProcessed /\ cls = "Nntime_com" /\ lastGet.page = CharsOne
    /\ \E t, u \in PageTasks : tasks[t].pc = "done" /\ tasks[u].pc = "inflight"
    /\ <<"h1", "80", proto>> \in proxies

====
